---- MODULE Spec2Model ----
(***************************************************************************)
(* Model of src/index.ts: the Bitbucket pull-request export.               *)
(*                                                                         *)
(* Node runs one callback at a time and drains every promise continuation  *)
(* before it takes the next I/O event, so one action of this model is one  *)
(* I/O event (a response or an error arriving for an outstanding request)  *)
(* together with everything the program does until it is again waiting    *)
(* on the network only.                                                    *)
(*                                                                         *)
(* Strings are sequences of one-character strings.  JavaScript's null and  *)
(* undefined are one-element sequences holding a word that is no           *)
(* character, so that every value of a field that may be a string, null    *)
(* or undefined is a sequence.                                             *)
(*                                                                         *)
(* Spec is the whole run within one day.  LookupSpec is one contributor    *)
(* lookup fed commits of every shape, ClockSpec the run while days go by,  *)
(* and LiveSpec the run when every outstanding request is answered.        *)
(***************************************************************************)
EXTENDS Integers, Sequences, FiniteSets, TLC

\* ------------------------------------------------------------------------
\* Bounds of the model
\* ------------------------------------------------------------------------

\* Number of HTTP requests one run may issue (the server stops handing out
\* links and retained pull requests when the run would exceed it).
MaxRequests == 6

\* Number of pull-request records on one page.
MaxPageLen == 2

\* Number of commits on one commit page.
MaxCommits == 1

\* Requests a run may spend in the specification with fairness.
MaxLiveRequests == 4

\* Requests a run may spend, and days it may last, in the specification
\* with a running clock.
MaxClockRequests == 5
MaxDays == 1

\* ------------------------------------------------------------------------
\* Values
\* ------------------------------------------------------------------------

Null == <<"null">>
Undefined == <<"undefined">>
EmptyString == <<>>

\* JavaScript truthiness of a value that is a string, null or undefined.
Truthy(v) == v # Null /\ v # Undefined /\ v # EmptyString

\* new Date(str).getTime() of a string that does not parse (NaN).
InvalidDate == -1

States == {"OPEN", "MERGED"}

\* The day the process starts (new Date() at module load), in days.
Today == 100

\* ninetyDaysAgo.setDate(ninetyDaysAgo.getDate() - 90)
NinetyDays == 90

Alice == <<"A">>
Carol == <<"C">>

\* The separator of Array.prototype.join(", ").
Separator == <<",", " ">>

\* ------------------------------------------------------------------------
\* Strings and arrays
\* ------------------------------------------------------------------------

SeqsUpTo(S, n) == UNION {[1..k -> S] : k \in 0..n}

Range(q) == {q[i] : i \in 1..Len(q)}

\* String.prototype.split("<")[0]: the part before the first "<".
RECURSIVE BeforeLt(_)
BeforeLt(str) ==
    IF str = <<>> \/ Head(str) = "<" THEN <<>>
    ELSE <<Head(str)>> \o BeforeLt(Tail(str))

RECURSIVE TrimStart(_)
TrimStart(str) ==
    IF str # <<>> /\ Head(str) = " " THEN TrimStart(Tail(str)) ELSE str

RECURSIVE TrimEnd(_)
TrimEnd(str) ==
    IF str # <<>> /\ str[Len(str)] = " "
    THEN TrimEnd(SubSeq(str, 1, Len(str) - 1)) ELSE str

\* String.prototype.trim()
Trim(str) == TrimEnd(TrimStart(str))

\* Variant: the newest value comes first.
SetAddFront(set, v) == IF v \in Range(set) THEN set ELSE <<v>> \o set

\* Set.prototype.add: a Set keeps insertion order and ignores a value it has.
SetAdd(set, v) == IF v \in Range(set) THEN set ELSE Append(set, v)

\* new Set(array), spread back into an array.
RECURSIVE NewSet(_)
NewSet(array) ==
    IF array = <<>> THEN <<>>
    ELSE SetAdd(NewSet(SubSeq(array, 1, Len(array) - 1)), array[Len(array)])

\* Array.prototype.join(", "): undefined and null elements join as "".
RECURSIVE Join(_)
Join(array) ==
    IF array = <<>> THEN <<>>
    ELSE LET first == IF array[1] \in {Null, Undefined} THEN <<>> ELSE array[1]
         IN  IF Len(array) = 1 THEN first
             ELSE first \o Separator \o Join(Tail(array))

\* ------------------------------------------------------------------------
\* What the server may answer
\* ------------------------------------------------------------------------

\* Pull-request records the server lists for ?state=s.  created_on and
\* updated_on are the parsed timestamps in days; author is
\* pr.author.display_name, Undefined when the record has no author object.
\* The open list holds a record created the day before the cutoff, one
\* created at the cutoff, one created after it and one without author;
\* the merged list holds one created before and one created at the cutoff.
PullRequests(s) ==
    IF s = "OPEN"
    THEN { [id |-> 1, state |-> s, author |-> Alice,
            created_on |-> Today - NinetyDays - 1, updated_on |-> Today],
           [id |-> 2, state |-> s, author |-> Alice,
            created_on |-> Today - NinetyDays, updated_on |-> Today],
           [id |-> 3, state |-> s, author |-> Alice,
            created_on |-> Today - NinetyDays + 1, updated_on |-> Today],
           [id |-> 4, state |-> s, author |-> Undefined,
            created_on |-> Today - 1, updated_on |-> Today] }
    ELSE { [id |-> 5, state |-> s, author |-> Alice,
            created_on |-> Today - NinetyDays - 1, updated_on |-> Today],
           [id |-> 6, state |-> s, author |-> Alice,
            created_on |-> Today - NinetyDays, updated_on |-> Today] }

\* A record created strictly before the cutoff of a process started Today.
Older(pr) == pr.created_on < Today - NinetyDays

\* Commit records: author.user.display_name and author.raw.
Commits ==
    { [user |-> Alice, raw |-> <<"C", " ", "<", "c", ">">>],
      [user |-> Undefined, raw |-> <<"C", " ", "<", "c", ">">>] }

\* Commit records of every shape: Commits, and commits with a registered user
\* only, with a raw author string that has no "<", with a raw author string
\* whose name has two words, and with no author at all.
AllCommits ==
    Commits \cup
    { [user |-> Alice, raw |-> Undefined],
      [user |-> Undefined, raw |-> <<" ", "C", " ">>],
      [user |-> Undefined, raw |-> <<"C", " ", "S", " ", "<", "c", ">">>],
      [user |-> Undefined, raw |-> Undefined] }

\* The first URL of each endpoint and the next links the server may hand out.
PRUrl(s) == <<"pullrequests", "state", s, "pagelen", "50">>
PRLinks(s) == {<<"pullrequests", "state", s, "page", c>> : c \in {"2", "3"}}
CommitsUrl(prId) == <<"pullrequests", ToString(prId), "commits">>
CommitsLinks(prId) == {<<"pullrequests", ToString(prId), "commits", "page", "2">>}

\* The mark of a page response that carries no next link.
NoLink == <<"none">>

\* response.data.next: a link, null, or absent.
NextOf(links) == links \cup {Null, Undefined}

\* ------------------------------------------------------------------------
\* State
\* ------------------------------------------------------------------------

VARIABLES
    env,        \* TRUE iff every required environment variable is set
    now,        \* the wall clock, in days
    pc,         \* "boot", "fetching", "written", "skipped" or "aborted"
    sinceDate,  \* the cutoff, set once at module load
    fetchPc,    \* per state: "idle", "awaitPage", "awaitLookups", "returned"
    nextUrl,    \* per state: fetchPRs' nextUrl
    allPRs,     \* per state: fetchPRs' allPRs
    pageNext,   \* per state: response.data.next of the page being mapped
    lookups,    \* per state: the map callbacks of the page being mapped
    result,     \* per state: what fetchPRs returned
    file,       \* the rows of the written sheet
    writes,     \* number of XLSX.writeFile calls
    requests,   \* per state: number of axios.get calls made on its behalf
    pageRequests, \* per state: how many of them fetchPRs made itself
    served,     \* per state: for each page received, in order, its records
                \* that were created at or after the cutoff, as listed
    older,      \* per state: the records received that were created before it
    lastLink,   \* per state: the next link of the last page received
    failed      \* per state: TRUE iff fetchPRs' catch block ran

vars == <<env, now, pc, sinceDate, fetchPc, nextUrl, allPRs, pageNext, lookups,
          result, file, writes, requests, pageRequests, served, older,
          lastLink, failed>>

Init ==
    /\ env \in BOOLEAN
    /\ now = Today
    /\ pc = "boot"
    /\ sinceDate = InvalidDate
    /\ fetchPc = [s \in States |-> "idle"]
    /\ nextUrl = [s \in States |-> Null]
    /\ allPRs = [s \in States |-> <<>>]
    /\ pageNext = [s \in States |-> Undefined]
    /\ lookups = [s \in States |-> <<>>]
    /\ result = [s \in States |-> <<>>]
    /\ file = <<>>
    /\ writes = 0
    /\ requests = [s \in States |-> 0]
    /\ pageRequests = [s \in States |-> 0]
    /\ served = [s \in States |-> <<>>]
    /\ older = [s \in States |-> {}]
    /\ lastLink = [s \in States |-> NoLink]
    /\ failed = [s \in States |-> FALSE]

\* ------------------------------------------------------------------------
\* The program's pure steps
\* ------------------------------------------------------------------------

\* Variant: the filter keeps every record whose date parses.
CreatedSinceUnfiltered(pr, since) == pr.created_on # InvalidDate

\* Variant: the filter compares with > and drops a record created at the cutoff.
CreatedSinceStrict(pr, since) ==
    /\ pr.created_on # InvalidDate
    /\ since # InvalidDate
    /\ pr.created_on > since

\* new Date(pr.created_on) >= new Date(sinceDate); false when either is NaN.
CreatedSince(pr, since) ==
    /\ pr.created_on # InvalidDate
    /\ since # InvalidDate
    /\ pr.created_on >= since

\* Variant: every record of the page goes on to the map callback.
FilterPRsAll(values, since) == values

\* response.data.values.filter(...)
FilterPRs(values, since) == SelectSeq(values, LAMBDA pr : CreatedSince(pr, since))

\* Variant: the raw author string is preferred to the registered user.
AddCommitRawFirst(contributors, commit) ==
    IF Truthy(commit.raw) THEN SetAdd(contributors, Trim(BeforeLt(commit.raw)))
    ELSE IF Truthy(commit.user) THEN SetAdd(contributors, commit.user)
    ELSE contributors

\* The forEach callback of getContributorsForPR: contributors after one commit.
AddCommit(contributors, commit) ==
    IF Truthy(commit.user) THEN SetAdd(contributors, commit.user)
    ELSE IF Truthy(commit.raw) THEN SetAdd(contributors, Trim(BeforeLt(commit.raw)))
    ELSE contributors

\* response.data.values.forEach(...)
RECURSIVE AddCommits(_, _)
AddCommits(contributors, commits) ==
    IF commits = <<>> THEN contributors
    ELSE AddCommits(AddCommit(contributors, Head(commits)), Tail(commits))

\* Variant: the loop never follows a next link.
NextUrlOfStop(next) == Null

\* nextUrl = response.data.next || null
NextUrlOf(next) == IF Truthy(next) THEN next ELSE Null

\* Variant: the catch block returns the names gathered before the failure.
LookupCatchPartial(contributors) == contributors

\* What getContributorsForPR returns from its catch block.
LookupCatch(contributors) == <<>>

\* Variant: the catch block returns the rows accumulated so far.
FetchCatchPartial(rows) == rows

\* What fetchPRs returns from its catch block.
FetchCatch(rows) == <<>>

\* Variant: the names are joined without passing through a Set.
ContributorsFieldNoSet(author, contributors) ==
    Join(<<author>> \o contributors)

\* Variant: the field is built from the lookup's result alone.
ContributorsFieldNoAuthor(author, contributors) ==
    Join(NewSet(contributors))

\* [...new Set([pr.author.display_name, ...contributors])].join(", ")
ContributorsField(author, contributors) ==
    Join(NewSet(<<author>> \o contributors))

\* The map callback throws when it reads display_name of a missing author
\* or formats an updated_on that does not parse.
MapThrows(pr) == pr.author = Undefined \/ pr.updated_on = InvalidDate

\* The row the map callback returns (the fields the export's shape rests on).
MakeRow(pr, contributors) ==
    [ID |-> pr.id, State |-> pr.state, Developer |-> pr.author,
     Contributors |-> ContributorsField(pr.author, contributors)]

\* Variant: the merged rows come first.
ConcatReversed(openPRs, mergedPRs) == mergedPRs \o openPRs

\* const allPRs = [...openPRs, ...mergedPRs]
Concat(openPRs, mergedPRs) == openPRs \o mergedPRs

\* Variant: the export is never skipped.
ShouldWriteAlways(rows) == TRUE

\* allPRs.length === 0 skips the export.
ShouldWrite(rows) == Len(rows) # 0

\* The rows of an array of settled map callbacks, in the array's order.
RECURSIVE RowsOf(_)
RowsOf(lks) ==
    IF lks = <<>> THEN <<>> ELSE Head(lks).rows \o RowsOf(Tail(lks))

\* The map callback of one retained record: its state when its lookup
\* returned `list`.
Mapped(lk, list) ==
    IF MapThrows(lk.pr)
    THEN [lk EXCEPT !.status = "rejected"]
    ELSE [lk EXCEPT !.status = "resolved", !.rows = <<MakeRow(lk.pr, list)>>]

\* Variant: a rejected promise does not settle the join.
NeverRejected(lks) == FALSE

\* Promise.all rejects as soon as one of its promises is rejected.
AnyRejected(lks) == \E i \in 1..Len(lks) : lks[i].status = "rejected"

\* Variant: the join is over as soon as one of the promises is resolved.
AnyResolved(lks) ==
    lks = <<>> \/ \E i \in 1..Len(lks) : lks[i].status = "resolved"

\* Promise.all resolves once every one of its promises is resolved.
AllResolved(lks) == \A i \in 1..Len(lks) : lks[i].status = "resolved"

\* The map callbacks started for the retained records of a page.
StartLookups(kept) ==
    [i \in 1..Len(kept) |->
        [pr |-> kept[i], status |-> "running", contributors |-> <<>>,
         url |-> CommitsUrl(kept[i].id), caught |-> FALSE, rows |-> <<>>,
         heard |-> <<>>]]

\* Requests issued, plus the next-page requests the program will issue for
\* the links it already holds.
Committed ==
    requests["OPEN"] + requests["MERGED"]
        + Cardinality({s \in States :
                    fetchPc[s] = "awaitLookups" /\ Truthy(pageNext[s])})

\* ------------------------------------------------------------------------
\* Operations
\* ------------------------------------------------------------------------

\* Variant: the cutoff is worked out anew whenever a page is filtered.
CutoffAnew == now - NinetyDays

\* The cutoff the filter of a page compares with: the module constant.
Cutoff == sinceDate

\* exportToExcel after Promise.all: runs once both fetchPRs calls returned.
Export(newPc, newResult) ==
    IF \A s \in States : newPc[s] = "returned"
    THEN LET rows == Concat(newResult["OPEN"], newResult["MERGED"])
         IN  IF ShouldWrite(rows)
             THEN /\ file' = rows
                  /\ writes' = writes + 1
                  /\ pc' = "written"
             ELSE /\ pc' = "skipped"
                  /\ UNCHANGED <<file, writes>>
    ELSE UNCHANGED <<pc, file, writes>>

\* Variant: a fetch that fails empties the other fetch's result as well.
ReturnAbortsBoth(s, rows, caught) ==
    LET newResult == IF caught THEN [t \in States |-> <<>>]
                     ELSE [result EXCEPT ![s] = rows]
    IN  /\ fetchPc' = [fetchPc EXCEPT ![s] = "returned"]
        /\ result' = newResult
        /\ failed' = [failed EXCEPT ![s] = caught]
        /\ Export([fetchPc EXCEPT ![s] = "returned"], newResult)

\* fetchPRs(s) returns `rows`; caught tells whether from its catch block.
Return(s, rows, caught) ==
    /\ fetchPc' = [fetchPc EXCEPT ![s] = "returned"]
    /\ result' = [result EXCEPT ![s] = rows]
    /\ failed' = [failed EXCEPT ![s] = caught]
    /\ Export([fetchPc EXCEPT ![s] = "returned"], [result EXCEPT ![s] = rows])

\* fetchPRs(s) from the point where the map callbacks of its current page
\* are `lks` and the page's response.data.next is `next`: the await of
\* Promise.all, the append to allPRs, and the loop test.  `awaiting` is
\* FALSE when fetchPRs(s) has already returned; `issued` counts the commit
\* requests the event issued before this point.
Advance(s, lks, next, awaiting, issued) ==
    LET rejected == AnyRejected(lks)
        resolved == AllResolved(lks)
        rows == allPRs[s] \o RowsOf(lks)
        url == NextUrlOf(next)
    IN  IF ~awaiting
        THEN /\ lookups' = [lookups EXCEPT ![s] = lks]
             /\ requests' = [requests EXCEPT ![s] = @ + issued]
             /\ UNCHANGED <<fetchPc, nextUrl, allPRs, pageNext, result,
                            failed, pc, file, writes, pageRequests>>
        ELSE IF rejected
        THEN /\ lookups' = [lookups EXCEPT ![s] = lks]
             /\ requests' = [requests EXCEPT ![s] = @ + issued]
             /\ pageNext' = [pageNext EXCEPT ![s] = Undefined]
             /\ Return(s, FetchCatch(allPRs[s]), TRUE)
             /\ UNCHANGED <<nextUrl, allPRs, pageRequests>>
        ELSE IF ~resolved
        THEN /\ lookups' = [lookups EXCEPT ![s] = lks]
             /\ requests' = [requests EXCEPT ![s] = @ + issued]
             /\ pageNext' = [pageNext EXCEPT ![s] = next]
             /\ fetchPc' = [fetchPc EXCEPT ![s] = "awaitLookups"]
             /\ UNCHANGED <<nextUrl, allPRs, result, failed, pc, file, writes,
                            pageRequests>>
        ELSE IF url # Null
        THEN /\ lookups' = [lookups EXCEPT ![s] = lks]
             /\ allPRs' = [allPRs EXCEPT ![s] = rows]
             /\ nextUrl' = [nextUrl EXCEPT ![s] = url]
             /\ pageNext' = [pageNext EXCEPT ![s] = Undefined]
             /\ fetchPc' = [fetchPc EXCEPT ![s] = "awaitPage"]
             /\ requests' = [requests EXCEPT ![s] = @ + issued + 1]
             /\ pageRequests' = [pageRequests EXCEPT ![s] = @ + 1]
             /\ UNCHANGED <<result, failed, pc, file, writes>>
        ELSE /\ lookups' = [lookups EXCEPT ![s] = lks]
             /\ allPRs' = [allPRs EXCEPT ![s] = rows]
             /\ nextUrl' = [nextUrl EXCEPT ![s] = url]
             /\ pageNext' = [pageNext EXCEPT ![s] = Undefined]
             /\ requests' = [requests EXCEPT ![s] = @ + issued]
             /\ Return(s, rows, FALSE)
             /\ UNCHANGED pageRequests

\* Variant: the run starts whatever the environment holds.
StartupUnchecked ==
    /\ pc = "boot"
    /\ pc' = "fetching"
    /\ sinceDate' = now - NinetyDays
    /\ fetchPc' = [s \in States |-> "awaitPage"]
    /\ nextUrl' = [s \in States |-> PRUrl(s)]
    /\ requests' = [s \in States |-> 1]
    /\ pageRequests' = [s \in States |-> 1]
    /\ UNCHANGED <<env, now, allPRs, pageNext, lookups, result, file, writes,
                   served, older, lastLink, failed>>

\* Module load and the call of exportToExcel: the environment check, the
\* cutoff, and the first request of both fetchPRs calls.
Startup ==
    /\ pc = "boot"
    /\ IF ~env
       THEN /\ pc' = "aborted"
            /\ UNCHANGED <<sinceDate, fetchPc, nextUrl, requests, pageRequests>>
       ELSE /\ pc' = "fetching"
            /\ sinceDate' = now - NinetyDays
            /\ fetchPc' = [s \in States |-> "awaitPage"]
            /\ nextUrl' = [s \in States |-> PRUrl(s)]
            /\ requests' = [s \in States |-> 1]
            /\ pageRequests' = [s \in States |-> 1]
    /\ UNCHANGED <<env, now, allPRs, pageNext, lookups, result, file, writes,
                   served, older, lastLink, failed>>

\* The response to fetchPRs(s)'s page request arrives: filter, start one
\* lookup per retained record, and go on as far as the page allows.
PRPageResponse(s) ==
    /\ fetchPc[s] = "awaitPage"
    /\ \E values \in SeqsUpTo(PullRequests(s), MaxPageLen),
          next \in NextOf(PRLinks(s)) :
        LET kept == FilterPRs(values, Cutoff)
        IN  /\ Committed + Len(kept) + (IF Truthy(next) THEN 1 ELSE 0)
                 <= MaxRequests
            /\ served' = [served EXCEPT ![s] =
                    Append(@, SelectSeq(values, LAMBDA pr : ~Older(pr)))]
            /\ older' = [older EXCEPT ![s] =
                            @ \cup {pr \in Range(values) : Older(pr)}]
            /\ lastLink' = [lastLink EXCEPT ![s] =
                                IF next \in PRLinks(s) THEN next ELSE NoLink]
            /\ Advance(s, StartLookups(kept), next, TRUE, Len(kept))
    /\ UNCHANGED <<env, now, sinceDate>>

\* fetchPRs(s)'s page request fails, or its response has no values array:
\* the catch block returns the empty list.
PRPageFail(s) ==
    /\ fetchPc[s] = "awaitPage"
    /\ Return(s, FetchCatch(allPRs[s]), TRUE)
    /\ UNCHANGED <<env, now, sinceDate, nextUrl, allPRs, pageNext, lookups,
                   requests, pageRequests, served, older, lastLink>>

\* The response to a commit-page request of the i-th lookup of s arrives,
\* its values being one of `pages`.  heard records the commits received.
CommitPage(s, i, pages) ==
    /\ i \in 1..Len(lookups[s])
    /\ lookups[s][i].status = "running"
    /\ \E commits \in pages,
          next \in NextOf(CommitsLinks(lookups[s][i].pr.id)) :
        LET lk == lookups[s][i]
            contributors == AddCommits(lk.contributors, commits)
            url == NextUrlOf(next)
            more == [lk EXCEPT !.contributors = contributors, !.url = url,
                               !.heard = @ \o commits]
        IN  IF url # Null
            THEN /\ Committed + 1 <= MaxRequests
                 /\ Advance(s, [lookups[s] EXCEPT ![i] = more], pageNext[s],
                            fetchPc[s] = "awaitLookups", 1)
            ELSE Advance(s, [lookups[s] EXCEPT ![i] = Mapped(more, contributors)],
                         pageNext[s], fetchPc[s] = "awaitLookups", 0)
    /\ UNCHANGED <<env, now, sinceDate, served, older, lastLink>>

CommitPageResponse(s, i) == CommitPage(s, i, SeqsUpTo(Commits, MaxCommits))

\* A commit-page request of the i-th lookup of s fails: the lookup's catch
\* block returns the empty list.
CommitPageFail(s, i) ==
    /\ i \in 1..Len(lookups[s])
    /\ lookups[s][i].status = "running"
    /\ LET lk == lookups[s][i]
       IN  Advance(s, [lookups[s] EXCEPT
                          ![i] = Mapped([lk EXCEPT !.caught = TRUE, !.url = Null,
                                            !.contributors = <<>>],
                                        LookupCatch(lk.contributors))],
                   pageNext[s], fetchPc[s] = "awaitLookups", 0)
    /\ UNCHANGED <<env, now, sinceDate, served, older, lastLink>>

Next ==
    \/ Startup
    \/ \E s \in States : PRPageResponse(s)
    \/ \E s \in States : PRPageFail(s)
    \/ \E s \in States, i \in 1..MaxPageLen : CommitPageResponse(s, i)
    \/ \E s \in States, i \in 1..MaxPageLen : CommitPageFail(s, i)

Spec == Init /\ [][Next]_vars

\* ------------------------------------------------------------------------
\* One contributor lookup on its own, fed commits of every shape
\* ------------------------------------------------------------------------

\* The run at the point where fetchPRs("MERGED") has failed on its first
\* request and fetchPRs("OPEN") has received a last page of one retained
\* record, whose lookup has issued its first commit request.
InitLookup ==
    /\ env = TRUE
    /\ now = Today
    /\ pc = "fetching"
    /\ sinceDate = Today - NinetyDays
    /\ \E pr \in {p \in PullRequests("OPEN") : ~Older(p)} :
        /\ lookups = [s \in States |->
                        IF s = "OPEN" THEN StartLookups(<<pr>>) ELSE <<>>]
        /\ served = [s \in States |-> IF s = "OPEN" THEN <<<<pr>>>> ELSE <<>>]
    /\ fetchPc = [s \in States |->
                    IF s = "OPEN" THEN "awaitLookups" ELSE "returned"]
    /\ nextUrl = [s \in States |-> PRUrl(s)]
    /\ allPRs = [s \in States |-> <<>>]
    /\ pageNext = [s \in States |-> Undefined]
    /\ result = [s \in States |-> <<>>]
    /\ file = <<>>
    /\ writes = 0
    /\ requests = [s \in States |-> IF s = "OPEN" THEN 2 ELSE 1]
    /\ pageRequests = [s \in States |-> 1]
    /\ older = [s \in States |-> {}]
    /\ lastLink = [s \in States |-> NoLink]
    /\ failed = [s \in States |-> s = "MERGED"]

NextLookup ==
    \/ CommitPage("OPEN", 1, SeqsUpTo(AllCommits, MaxCommits))
    \/ CommitPageFail("OPEN", 1)

LookupSpec == InitLookup /\ [][NextLookup]_vars

\* ------------------------------------------------------------------------
\* The run when every request is answered
\* ------------------------------------------------------------------------

\* The page request of fetchPRs(s) gets its response or its error.
Answer(s) ==
    /\ PRPageResponse(s) \/ PRPageFail(s)
    /\ Committed' <= MaxLiveRequests

\* The commit request of the i-th lookup of s gets its response or its error.
CommitAnswer(s, i) ==
    /\ CommitPageResponse(s, i) \/ CommitPageFail(s, i)
    /\ Committed' <= MaxLiveRequests

NextLive ==
    \/ Startup
    \/ \E s \in States : Answer(s)
    \/ \E s \in States, i \in 1..MaxPageLen : CommitAnswer(s, i)

\* The process starts, and every request that is outstanding is answered.
LiveSpec ==
    /\ Init /\ [][NextLive]_vars
    /\ WF_vars(Startup)
    /\ \A s \in States : WF_vars(Answer(s))
    /\ \A s \in States : \A i \in 1..MaxPageLen : WF_vars(CommitAnswer(s, i))

\* ------------------------------------------------------------------------
\* The run while days go by
\* ------------------------------------------------------------------------

\* A day goes by while the two fetches are under way.
Tick ==
    /\ pc = "fetching"
    /\ now < Today + MaxDays
    /\ now' = now + 1
    /\ UNCHANGED <<env, pc, sinceDate, fetchPc, nextUrl, allPRs, pageNext,
                   lookups, result, file, writes, requests, pageRequests,
                   served, older, lastLink, failed>>

NextClock ==
    \/ Tick
    \/ Startup
    \/ \E s \in States : PRPageResponse(s) /\ Committed' <= MaxClockRequests
    \/ \E s \in States : PRPageFail(s)
    \/ \E s \in States, i \in 1..MaxPageLen :
           CommitPageResponse(s, i) /\ Committed' <= MaxClockRequests
    \/ \E s \in States, i \in 1..MaxPageLen : CommitPageFail(s, i)

ClockSpec == Init /\ [][NextClock]_vars

\* ------------------------------------------------------------------------
\* Notions the properties are stated with
\* ------------------------------------------------------------------------

Done == pc \in {"written", "skipped"}

Other(s) == IF s = "OPEN" THEN "MERGED" ELSE "OPEN"

\* The records of a sequence of pages, in page order.
RECURSIVE Flat(_)
Flat(pages) == IF pages = <<>> THEN <<>> ELSE Head(pages) \o Flat(Tail(pages))

\* The names of a Contributors field: the field cut at every ", ".
RECURSIVE Split(_)
Split(str) ==
    LET cuts == {i \in 1..(Len(str) - 1) : str[i] = "," /\ str[i + 1] = " "}
    IN  IF cuts = {} THEN <<str>>
        ELSE LET i == CHOOSE c \in cuts : \A d \in cuts : c <= d
             IN  <<SubSeq(str, 1, i - 1)>> \o Split(SubSeq(str, i + 2, Len(str)))

NoDuplicates(q) == Cardinality(Range(q)) = Len(q)

\* How many entries of q have the identifier id.
Listings(q, id) == Cardinality({i \in 1..Len(q) : q[i].id = id})
RowCount(q, id) == Cardinality({i \in 1..Len(q) : q[i].ID = id})

\* Every row the program holds.
AllRows ==
    Range(file) \cup UNION {Range(allPRs[s]) \cup Range(result[s]) : s \in States}
                \cup UNION {UNION {Range(lookups[s][i].rows) :
                                       i \in 1..Len(lookups[s])} : s \in States}

Running(s) == {i \in 1..Len(lookups[s]) : lookups[s][i].status = "running"}

\* ------------------------------------------------------------------------
\* Properties
\* ------------------------------------------------------------------------

\* C1: every row returned by a fetch or exported derives from a record
\* that a page of its state query returned and that was created at or after
\* the cutoff; no row exists for a record created strictly before it.
C1_RowsOnlySinceCutoff ==
    \A s \in States :
        \A row \in Range(result[s]) \cup {r \in Range(file) : r.State = s} :
            /\ \E pr \in Range(Flat(served[s])) :
                   pr.id = row.ID /\ pr.created_on >= sinceDate
            /\ \A pr \in older[s] : pr.id # row.ID

\* C1 witness: the file is written with a row of a state whose pages also
\* listed a record created before the cutoff.
C1_Witness ==
    /\ pc = "written"
    /\ \E s \in States :
           older[s] # {} /\ \E row \in Range(file) : row.State = s

\* C2 as stated: once a state's fetch has returned, its list holds exactly
\* one row for every record created at or after the cutoff that a page of
\* that state listed.
C2_ExactlyOneRowEach ==
    \A s \in States :
        fetchPc[s] = "returned" =>
            \A pr \in Range(Flat(served[s])) : RowCount(result[s], pr.id) = 1

\* C2 amended: when a state's fetch returns without a failed request or
\* record mapping, its list holds one row per listing of each record
\* created at or after the cutoff (exactly one for a record listed once).
C2_OneRowPerListing ==
    \A s \in States :
        (fetchPc[s] = "returned" /\ ~failed[s]) =>
            \A pr \in PullRequests(s) :
                pr.created_on >= sinceDate =>
                    RowCount(result[s], pr.id) = Listings(Flat(served[s]), pr.id)

\* C2 witness: a fetch returned, without failing, two pages' worth of rows.
C2_Witness ==
    \E s \in States :
        /\ fetchPc[s] = "returned" /\ ~failed[s]
        /\ Len(served[s]) >= 2
        /\ Len(result[s]) >= 2

\* C3: the Contributors field of every row names the PR author and names
\* nobody twice.
C3_AuthorOnceNoDuplicates ==
    \A row \in AllRows :
        LET names == Split(row.Contributors)
        IN  row.Developer \in Range(names) /\ NoDuplicates(names)

\* C3 witness: an exported row whose lookup resolved the PR author as a
\* commit author together with another name.
C3_Witness ==
    /\ pc = "written"
    /\ \E s \in States : \E i \in 1..Len(lookups[s]) :
        /\ lookups[s][i].status = "resolved"
        /\ lookups[s][i].pr.author \in Range(lookups[s][i].contributors)
        /\ Carol \in Range(lookups[s][i].contributors)
        /\ lookups[s][i].rows[1] \in Range(file)

\* C4: when the lookup of a retained record (one that has an author) ends
\* in its catch block, the record's row is built, its Contributors field
\* names the author, and the row is in the list the fetch returns unless
\* the fetch itself failed.
C4_FailedLookupKeepsRow ==
    \A s \in States :
        \A i \in 1..Len(lookups[s]) :
            LET lk == lookups[s][i]
            IN  (lk.caught /\ lk.pr.author # Undefined
                           /\ lk.pr.updated_on # InvalidDate) =>
                    /\ lk.status = "resolved"
                    /\ Len(lk.rows) = 1
                    /\ lk.pr.author \in Range(Split(lk.rows[1].Contributors))
                    /\ (fetchPc[s] = "returned" /\ ~failed[s]) =>
                           lk.rows[1] \in Range(result[s])

\* C4 witness: the row of a record whose lookup failed is in the file.
C4_Witness ==
    /\ pc = "written"
    /\ \E s \in States : \E i \in 1..Len(lookups[s]) :
        /\ lookups[s][i].caught
        /\ lookups[s][i].rows # <<>>
        /\ lookups[s][i].rows[1] \in Range(file)

\* C5: a state's fetch that caught a failure has returned the empty list,
\* and from then on no request is issued for that state.
C5_FailureEndsRequests ==
    /\ [](\A s \in States :
            failed[s] => fetchPc[s] = "returned" /\ result[s] = <<>>)
    /\ [][\A s \in States : failed[s] => requests'[s] = requests[s]]_vars

\* C6 as stated: at the end of the run the rows a failed fetch had built
\* from the pages before the failing one are in the exported sequence.
C6_PartialRowsKept ==
    Done => \A s \in States :
                failed[s] => \A row \in Range(allPRs[s]) : row \in Range(file)

\* C6 amended: a failure on a later page discards that state's rows, those
\* of the earlier pages included; the run goes on and exports exactly the
\* rows of the other state.
C6_FailedStateExportsNothing ==
    Done => \A s \in States :
                failed[s] =>
                    /\ result[s] = <<>>
                    /\ \A row \in Range(file) : row.State # s
                    /\ file = result[Other(s)]

\* C6 witness: the file is written although one fetch failed after it had
\* built rows from an earlier page.
C6_Witness ==
    /\ pc = "written"
    /\ \E s \in States : failed[s] /\ allPRs[s] # <<>>

\* C7: the page request outstanding for a state is addressed to the first
\* URL before any response and to exactly the next link of the last
\* response after one; after a response without next link no page request
\* is outstanding; and a fetch whose last response carried a link does not
\* return its rows without having requested that link.
C7_FollowsNextLink ==
    \A s \in States :
        /\ fetchPc[s] = "awaitPage" =>
               nextUrl[s] = IF served[s] = <<>> THEN PRUrl(s) ELSE lastLink[s]
        /\ (served[s] # <<>> /\ lastLink[s] = NoLink) =>
               fetchPc[s] \in {"awaitLookups", "returned"}
        /\ (served[s] # <<>> /\ lastLink[s] \in PRLinks(s)
                             /\ fetchPc[s] = "returned") => failed[s]

\* C7 witness: a page request is outstanding at the link the previous
\* page's response carried.
C7_Witness ==
    \E s \in States :
        /\ fetchPc[s] = "awaitPage"
        /\ served[s] # <<>>
        /\ lastLink[s] \in PRLinks(s)
        /\ nextUrl[s] = lastLink[s]

\* C8: the file is written exactly when the two fetches returned at least
\* one row between them, and is not written before the run ends.
C8_FileIffRows ==
    /\ ~Done => writes = 0
    /\ Done =>
        IF Len(result["OPEN"]) + Len(result["MERGED"]) = 0
        THEN pc = "skipped" /\ writes = 0
        ELSE pc = "written" /\ writes = 1

\* C8 witness: the export is skipped because both fetches failed.
C8_Witness ==
    pc = "skipped" /\ failed["OPEN"] /\ failed["MERGED"]

\* C9: the exported sequence lists the open rows and then the merged rows,
\* each state's rows in the order its pages listed the records.
C9_OpenThenMergedInPageOrder ==
    Done =>
        LET expected(s) == IF failed[s] THEN <<>> ELSE Flat(served[s])
            wanted == expected("OPEN") \o expected("MERGED")
        IN  /\ Len(file) = Len(wanted)
            /\ \A i \in 1..Len(wanted) :
                   file[i].ID = wanted[i].id /\ file[i].State = wanted[i].state

\* C9 witness: the file holds open rows of two pages and a merged row.
C9_Witness ==
    /\ pc = "written"
    /\ ~failed["OPEN"]
    /\ Len(served["OPEN"]) = 2
    /\ served["OPEN"][1] # <<>> /\ served["OPEN"][2] # <<>>
    /\ Len(result["MERGED"]) >= 1

\* C10: the file is written at most once, and once it is written both
\* fetches have returned and no request is outstanding.
C10_WriteAfterAllRequests ==
    /\ writes <= 1
    /\ writes >= 1 =>
        \A s \in States : fetchPc[s] = "returned" /\ Running(s) = {}

\* The name the specification gives a commit: the registered user's display
\* name, else the raw author string before "<" without surrounding blanks.
Named(commit) == commit.user # Undefined \/ commit.raw # Undefined

NameOf(commit) ==
    IF commit.user # Undefined THEN commit.user
    ELSE IF commit.raw = <<"C", " ", "S", " ", "<", "c", ">">>
    THEN <<"C", " ", "S">>
    ELSE Carol

\* The names of a sequence of commits, each once, in order of first appearance.
RECURSIVE FirstSeen(_)
FirstSeen(commits) ==
    IF commits = <<>> THEN <<>>
    ELSE LET before == FirstSeen(SubSeq(commits, 1, Len(commits) - 1))
             last == commits[Len(commits)]
         IN  IF Named(last) /\ NameOf(last) \notin Range(before)
             THEN Append(before, NameOf(last))
             ELSE before

\* C11: a lookup none of whose requests failed holds, and returns, the names
\* of the commits of all the commit pages it received, each name once, in
\* order of first appearance.
C11_NamesInFirstSeenOrder ==
    \A s \in States :
        \A i \in 1..Len(lookups[s]) :
            ~lookups[s][i].caught =>
                /\ lookups[s][i].contributors = FirstSeen(lookups[s][i].heard)
                /\ NoDuplicates(lookups[s][i].contributors)

\* A lookup returned two names after three commits on two or more pages, the
\* first name seen twice.
C11_Witness ==
    \E i \in 1..Len(lookups["OPEN"]) :
        LET lk == lookups["OPEN"][i]
        IN  /\ lk.status = "resolved"
            /\ ~lk.caught
            /\ Len(lk.heard) = 3
            /\ requests["OPEN"] >= 4
            /\ lk.contributors = <<Carol, Alice>>
            /\ NameOf(lk.heard[3]) = Carol

\* The step in which the i-th lookup of s ends in its catch block.
LookupFails(s, i) ==
    /\ i <= Len(lookups'[s])
    /\ ~lookups[s][i].caught
    /\ lookups'[s][i].caught

\* C12: a lookup that ends in its catch block hands the empty list to its
\* record's row, whatever names earlier commit pages gave, so the row names
\* the author alone; the step in which it fails does not make the state's
\* fetch fail (only a record that cannot be mapped does), leaves the other
\* lookups of the page and the rows of earlier pages as they were, and when
\* it is the last lookup the page waited for, the fetch requests the page's
\* next link or returns all its rows.
C12_LookupFailureContained ==
    /\ [](\A s \in States :
            \A i \in 1..Len(lookups[s]) :
                (lookups[s][i].caught /\ lookups[s][i].status = "resolved") =>
                    Split(lookups[s][i].rows[1].Contributors)
                        = <<lookups[s][i].pr.author>>)
    /\ [][\A s \in States :
            \A i \in 1..Len(lookups[s]) :
                LookupFails(s, i) =>
                    LET mapped == ~MapThrows(lookups[s][i].pr)
                        last == \A j \in 1..Len(lookups[s]) :
                                    j # i => lookups[s][j].status = "resolved"
                        rows == allPRs[s] \o RowsOf(lookups'[s])
                    IN  /\ mapped => failed'[s] = failed[s]
                        /\ \A j \in 1..Len(lookups[s]) :
                               j # i => lookups'[s][j] = lookups[s][j]
                        /\ Len(allPRs'[s]) >= Len(allPRs[s])
                        /\ SubSeq(allPRs'[s], 1, Len(allPRs[s])) = allPRs[s]
                        /\ (fetchPc[s] = "awaitLookups" /\ mapped /\ last) =>
                               IF Truthy(pageNext[s])
                               THEN /\ fetchPc'[s] = "awaitPage"
                                    /\ nextUrl'[s] = pageNext[s]
                                    /\ allPRs'[s] = rows
                               ELSE /\ fetchPc'[s] = "returned"
                                    /\ result'[s] = rows]_vars

\* C12 witness: a lookup failed after an earlier commit page had named
\* Carol, its row names the author alone beside another record's row, and
\* the fetch has requested the next page.
C12_Witness ==
    \E s \in States :
        /\ fetchPc[s] = "awaitPage"
        /\ ~failed[s]
        /\ Len(lookups[s]) = 2
        /\ \E i \in 1..Len(lookups[s]) :
            /\ lookups[s][i].caught
            /\ \E c \in Range(lookups[s][i].heard) : NameOf(c) = Carol
            /\ lookups[s][i].rows[1].Contributors = Alice
            /\ lookups[s][i].rows[1] \in Range(allPRs[s])

\* C13: a state's fetch has never issued more page requests than it has
\* received pages plus one, so at most one is outstanding; and while a page
\* request is outstanding the lookups of the page received last, one per
\* retained record, have all completed.
C13_NextPageAfterLookups ==
    \A s \in States :
        /\ pageRequests[s] <= Len(served[s]) + 1
        /\ (\E i \in 1..Len(lookups[s]) : lookups[s][i].status = "running") =>
               (pageRequests[s] = Len(served[s]) \/ fetchPc[s] = "returned")
        /\ fetchPc[s] = "awaitPage" =>
            /\ pageRequests[s] = Len(served[s]) + 1
            /\ served[s] # <<>> =>
                   Len(lookups[s]) = Len(served[s][Len(served[s])])
            /\ \A i \in 1..Len(lookups[s]) :
                   /\ lookups[s][i].status = "resolved"
                   /\ lookups[s][i].url = Null

\* C13 witness: the second page is requested after the two lookups of the
\* first completed, one over two commit pages and one in its catch block.
C13_Witness ==
    \E s \in States :
        /\ fetchPc[s] = "awaitPage"
        /\ pageRequests[s] = 2
        /\ Len(lookups[s]) = 2
        /\ requests[s] >= 5
        /\ \E i \in 1..Len(lookups[s]) : lookups[s][i].caught
        /\ \E i \in 1..Len(lookups[s]) : ~lookups[s][i].caught

\* Everything the run holds on behalf of fetchPRs(s).
FetchOf(s) ==
    <<fetchPc[s], nextUrl[s], allPRs[s], pageNext[s], lookups[s], result[s],
      requests[s], pageRequests[s], served[s], older[s], lastLink[s],
      failed[s]>>

\* C14: after startup every step is the answer to one request of one state
\* and leaves everything held for the other state as it was; a fetch fails
\* only through a failed page request or a rejected record of its own, and
\* the rows it returns are those of the records of its own pages, in order.
C14_FetchesDoNotInterfere ==
    /\ [][pc # "boot" => \E s \in States : FetchOf(Other(s))' = FetchOf(Other(s))]_vars
    /\ [](\A s \in States :
            /\ failed[s] =>
                   \/ pageRequests[s] = Len(served[s]) + 1
                   \/ AnyRejected(lookups[s])
            /\ fetchPc[s] = "returned" =>
                   LET wanted == IF failed[s] THEN <<>> ELSE Flat(served[s])
                   IN  /\ Len(result[s]) = Len(wanted)
                       /\ \A i \in 1..Len(wanted) :
                              result[s][i].ID = wanted[i].id)

\* C14 witness: the open fetch failed on its second page while one of its
\* lookups is still running, after the merged fetch had returned a row, and
\* the merged row is the whole file.
C14_Witness ==
    /\ pc = "written"
    /\ failed["OPEN"]
    /\ Len(served["OPEN"]) = 2
    /\ \E i \in 1..Len(lookups["OPEN"]) : lookups["OPEN"][i].status = "running"
    /\ ~failed["MERGED"]
    /\ Len(result["MERGED"]) = 1
    /\ file = result["MERGED"]

\* Both fetches have returned and no request is outstanding.
Quiet == \A s \in States : fetchPc[s] = "returned" /\ Running(s) = {}

\* C15: when every request is answered, a run that has started its two
\* fetches reaches its end, the file written or the export skipped, with
\* no request left outstanding.
C15_RunEnds == (pc = "fetching") ~> (Done /\ Quiet)

\* C15 witness: the run has ended with nothing outstanding after the open
\* fetch failed on a record while the lookup of another was still running.
C15_Witness ==
    /\ Done
    /\ Quiet
    /\ failed["OPEN"]
    /\ \E i \in 1..Len(lookups["OPEN"]) : lookups["OPEN"][i].status = "rejected"
    /\ \E i \in 1..Len(lookups["OPEN"]) :
        /\ lookups["OPEN"][i].status = "resolved"
        /\ lookups["OPEN"][i].rows # <<>>
        /\ lookups["OPEN"][i].rows[1] \notin Range(file)

\* C16: in a run whose environment lacks a required setting no request is
\* ever issued, no fetch starts and no file is written.
C16_NoSettingsNoActivity ==
    ~env =>
        /\ pc \in {"boot", "aborted"}
        /\ \A s \in States :
               requests[s] = 0 /\ pageRequests[s] = 0 /\ fetchPc[s] = "idle"
        /\ writes = 0
        /\ file = <<>>

\* C16 witness: the process has aborted on its environment check.
C16_Witness == ~env /\ pc = "aborted"

\* The pages of s whose rows fetchPRs(s) holds in allPRs: all the pages
\* received but the one whose lookups it is waiting for.
Joined(s) ==
    IF fetchPc[s] = "awaitLookups"
    THEN SubSeq(served[s], 1, Len(served[s]) - 1)
    ELSE served[s]

\* C17: the cutoff is the start day less ninety days from startup on,
\* whatever the clock says, and the rows a fetch has gathered are those of
\* the records of its pages created at or after that one cutoff.
C17_OneCutoff ==
    /\ [][pc # "boot" => sinceDate' = sinceDate]_vars
    /\ [](pc \notin {"boot", "aborted"} => sinceDate = Today - NinetyDays)
    /\ [](\A s \in States :
            ~failed[s] =>
                /\ Len(allPRs[s]) = Len(Flat(Joined(s)))
                /\ \A i \in 1..Len(allPRs[s]) :
                       allPRs[s][i].ID = Flat(Joined(s))[i].id)

\* C17 witness: a day after startup the file holds the rows of two open
\* pages, the second of them the row of a record created on the cutoff day.
C17_Witness ==
    /\ now = Today + 1
    /\ pc = "written"
    /\ Len(served["OPEN"]) = 2
    /\ Len(file) = 2
    /\ file[2].ID = 2
    /\ served["OPEN"][2] # <<>>

\* The commits the i-th lookup of s receives in the step.
Received(s, i) ==
    SubSeq(lookups'[s][i].heard, Len(lookups[s][i].heard) + 1,
           Len(lookups'[s][i].heard))

\* C18: the names a lookup holds after a commit page are those it held plus,
\* for every commit of the page, the registered user's display name if the
\* commit has one, else the raw author string before "<" without
\* surrounding blanks if it has one; a commit with neither adds nothing.
C18_NamePerCommit ==
    [][\A s \in States :
         \A i \in 1..Len(lookups[s]) :
             (i <= Len(lookups'[s]) /\ lookups'[s][i].pr = lookups[s][i].pr
                                    /\ ~lookups'[s][i].caught) =>
                 Range(lookups'[s][i].contributors)
                     = Range(lookups[s][i].contributors)
                         \cup {NameOf(c) : c \in {d \in Range(Received(s, i)) :
                                                      Named(d)}}]_vars

\* C18 witness: a lookup has received a commit with a registered user and a
\* raw author string, one with a two-word raw author string only, and one
\* without author, and holds the user's name and the two words.
C18_Witness ==
    \E i \in 1..Len(lookups["OPEN"]) :
        LET lk == lookups["OPEN"][i]
        IN  /\ Len(lk.heard) = 3
            /\ lk.heard[1].user = Alice /\ lk.heard[1].raw # Undefined
            /\ lk.heard[2].user = Undefined /\ lk.heard[2].raw # Undefined
            /\ ~Named(lk.heard[3])
            /\ lk.contributors = <<Alice, <<"C", " ", "S">> >>

\* C19: the lookups started for a page are one for each of its records
\* created at or after the cutoff, in the page's order, and none for a
\* record created before it; a fetch whose pages held no retained record
\* has issued no commit request, and one that did has issued at least one
\* for each of them.
C19_LookupPerRetainedRecord ==
    \A s \in States :
        /\ served[s] = <<>> => lookups[s] = <<>>
        /\ served[s] # <<>> =>
            /\ Len(lookups[s]) = Len(served[s][Len(served[s])])
            /\ \A i \in 1..Len(lookups[s]) :
                   lookups[s][i].pr = served[s][Len(served[s])][i]
        /\ \A i \in 1..Len(lookups[s]) :
            /\ lookups[s][i].pr \notin older[s]
            /\ lookups[s][i].pr.created_on >= Today - NinetyDays
        /\ requests[s] - pageRequests[s] >= Len(Flat(served[s]))
        /\ Flat(served[s]) = <<>> => requests[s] = pageRequests[s]

\* C19 witness: a page listed a record created before the cutoff and one
\* created at it, and the only commit request issued is for the latter.
C19_Witness ==
    \E s \in States :
        /\ Len(served[s]) = 1
        /\ older[s] # {}
        /\ Len(lookups[s]) = 1
        /\ lookups[s][1].pr.created_on = Today - NinetyDays
        /\ requests[s] - pageRequests[s] = 1

====
